---- MODULE Spec2Model ----
(***************************************************************************)
(* Release-notes API: the bounded LRU cache of ApiResponse records behind  *)
(* one tokio Mutex, and the two request handlers get_release_notes and     *)
(* force_refresh of src/src/main.rs.                                       *)
(*                                                                         *)
(* An Option<T> of the source is a sequence of length 0 (None) or 1        *)
(* (Some(x)).  The cache is a sequence of entries, most recently used      *)
(* first, which is the order uluru's LRUCache iterates and searches in.    *)
(*                                                                         *)
(* The markdown reducer, Item::from_list with build_items and reduce_ast,  *)
(* is a set of operators; the handlers apply it to the body of the release *)
(* they fetched (Spec, FairSpec), and MdSpec follows one call of it, turn  *)
(* by turn of reduce_ast's loop, on each body and item sequence drawn.     *)
(* A markdown text is carried as the tree the parser makes of it.          *)
(***************************************************************************)
EXTENDS Integers, Sequences, FiniteSets, TLC

\* ---------------------------------------------------------------- bounds
\* Total number of requests that arrive in one behaviour.
MaxOps == 4
\* Capacity of the LRU cache: the const generic of LRUCache<ApiResponse, N>,
\* 8192 in the source, scaled down so that a full cache is reached.
Capacity == 2

\* The concurrent request-handling tasks
Procs == {"t1", "t2"}
NoProc == "none"

\* ---------------------------------------------------------------- inputs
Orgs == {"o1", "o2"}
Repos == {"r1"}
TagNames == {"latest", "v1", "v2"}
\* params.get("tag"): None or Some(t)
TagParams == {<<>>} \cup {<<t>> : t \in TagNames}
Kinds == {"get", "force"}

\* ------------------------------------------------------ upstream (GitHub)
\* The releases published upstream: the tags of each repository, and the
\* tag its latest release carries (None when the repository has no release).
\* o1/r1 has released v1 and then v2; o2/r1 has no release.
UpstreamTags(org, repo) ==
    IF org = "o1" /\ repo = "r1" THEN {"v1", "v2"}
    ELSE {}

UpstreamLatest(org, repo) ==
    IF org = "o1" /\ repo = "r1" THEN <<"v2">>
    ELSE <<>>

\* releases.get_by_tag(tag): the call a handler sends upstream
get_by_tag(org, repo, t) == [op |-> "get_by_tag", org |-> org, repo |-> repo, tag |-> <<t>>]

\* releases.get_latest(): the call a handler sends upstream
get_latest(org, repo) == [op |-> "get_latest", org |-> org, repo |-> repo, tag |-> <<>>]

\* `match tag { Some(tag) => releases.get_by_tag(tag), _ => releases.get_latest() }`
UpstreamCall(org, repo, tag) ==
    IF tag # <<>> THEN get_by_tag(org, repo, tag[1]) ELSE get_latest(org, repo)

\* The release upstream holds for a call: the one carrying the tag asked
\* for, or the latest one; None when there is no such release
UpstreamRelease(call) ==
    IF call.op = "get_by_tag"
    THEN IF call.tag[1] \in UpstreamTags(call.org, call.repo)
         THEN <<[tag_name |-> call.tag[1]]>>
         ELSE <<>>
    ELSE IF UpstreamLatest(call.org, call.repo) # <<>>
         THEN <<[tag_name |-> UpstreamLatest(call.org, call.repo)[1]]>>
         ELSE <<>>

\* How a call can fail: the release asked for does not exist, or the request
\* itself fails (network, rate limit, ...)
Failures(call) ==
    {"error"} \cup (IF UpstreamRelease(call) = <<>> THEN {"not_found"} ELSE {})

\* ------------------------------------------------------- markdown (mdast)
\* A node of the syntax tree markdown::to_mdast returns.  Every node carries
\* the four fields; a kind that lacks one holds "" or <<>> there.
Node(type, value, url, children) ==
    [type |-> type, value |-> value, url |-> url, children |-> children]

Root(children) == Node("Root", "", "", children)
Paragraph(children) == Node("Paragraph", "", "", children)
List(children) == Node("List", "", "", children)
ListItem(children) == Node("ListItem", "", "", children)
Strong(children) == Node("Strong", "", "", children)
Emphasis(children) == Node("Emphasis", "", "", children)
Link(url, children) == Node("Link", "", url, children)
InlineCode(value) == Node("InlineCode", value, "", <<>>)
Text(value) == Node("Text", value, "", <<>>)
Image == Node("Image", "", "url", <<>>)
\* One of the node kinds build_items has no arm for
ThematicBreak == Node("ThematicBreak", "", "", <<>>)

\* A release body is carried as what the parser makes of it: a syntax error,
\* or the tree of the document
Notes(root) == [malformed |-> FALSE, tree |-> root]
Malformed == [malformed |-> TRUE, tree |-> Root(<<>>)]

\* markdown::to_mdast(notes, &ParseOptions::gfm()): Err(message) or Ok(node)
to_mdast(notes) ==
    IF notes.malformed
    THEN [ok |-> FALSE, node |-> Root(<<>>)]
    ELSE [ok |-> TRUE, node |-> notes.tree]

\* Any::type_id(&self) on a &Node: the TypeId of the receiver's static type,
\* which is the enum Node whatever variant the value is
type_id_of_node(n) == "markdown::mdast::Node"

\* (&Node::Image).type_id(): `Node::Image` without arguments names the
\* variant's constructor function, and the TypeId is that of its type
type_id_of_Image_constructor == "fn(Image) -> Node {Node::Image}"

\* The test build_items makes before it drops a paragraph
is_only_image(paragraph) ==
    /\ Len(paragraph.children) = 1
    /\ type_id_of_node(paragraph.children[1]) = type_id_of_Image_constructor

\* The category build_items gives a Text node, from its context
text_type(context) ==
    IF context = <<>> THEN "text"
    ELSE CASE context[1].type = "Strong" -> "bold"
           [] context[1].type = "Emphasis" -> "italic"
           [] context[1].type = "Link" -> context[1].url
           [] OTHER -> "text"

\* Mutant of child_context: a child of a node inside Strong, Emphasis or
\* Link keeps the context of that outer node
child_context_Inherits(node, context) ==
    IF context # <<>> /\ context[1].type \in {"Strong", "Emphasis", "Link"}
    THEN context
    ELSE <<node>>

\* The context every arm hands to the children of its node: Some(node)
child_context(node, context) == <<node>>

paragraph_break == [category |-> "break-p", text |-> ""]

\* Mutant of list_break: the list closes with an item that is no marker
list_break_AsText == [category |-> "text", text |-> ""]

list_break == [category |-> "break-l", text |-> ""]

RECURSIVE build_items(_, _), build_children(_, _, _)

\* children.iter().filter_map(|i| build_items(i, Some(node))).flat_map(|i| i)
build_children(children, node, context) ==
    IF children = <<>> THEN <<>>
    ELSE LET first == build_items(Head(children), child_context(node, context)) IN
         (IF first = <<>> THEN <<>> ELSE first[1])
            \o build_children(Tail(children), node, context)

\* Item::build_items(node, context): None, or Some(items)
build_items(node, context) ==
    CASE node.type = "Root" ->
            <<build_children(node.children, node, context)>>
      [] node.type = "Paragraph" ->
            IF is_only_image(node)
            THEN <<>>
            ELSE <<build_children(node.children, node, context) \o <<paragraph_break>>>>
      [] node.type = "List" ->
            <<build_children(node.children, node, context) \o <<list_break>>>>
      [] node.type \in {"ListItem", "Strong", "Link", "Emphasis"} ->
            <<build_children(node.children, node, context)>>
      [] node.type = "InlineCode" ->
            << <<[category |-> "code", text |-> node.value]>> >>
      [] node.type = "Text" ->
            << <<[category |-> text_type(context), text |-> node.value]>> >>
      [] OTHER -> <<>>

\* The URLs a link of the model may carry: an absolute one, and a relative
\* one to a file whose name begins with the word "break"
Urls == {"https://e.x/", "breaking.md"}

\* The categories build_items can give an item of the model
Categories == {"text", "bold", "italic", "code", "break-p", "break-l"} \cup Urls

\* category.starts_with("break"), over the categories of the model
starts_with_break(category) == category \in {"break-p", "break-l", "breaking.md"}

\* Mutant of on_break: the marker is passed on after the flush
on_break_KeepsMarker(st, next) ==
    [st EXCEPT !.transformed = Append(Append(@, [category |-> "text", text |-> st.building]), next),
               !.building = ""]

\* reduce_ast, the arms of its loop body; st holds its three locals
on_break(st, next) ==
    [st EXCEPT !.transformed = Append(@, [category |-> "text", text |-> st.building]),
               !.building = ""]

on_italic(st, next) ==
    [st EXCEPT !.building = @ \o "<i>" \o next.text \o "</i>"]

\* Mutant of on_bold: the text of a bold item is appended as it is
on_bold_Raw(st, next) ==
    [st EXCEPT !.building = @ \o next.text]

on_bold(st, next) ==
    [st EXCEPT !.building = @ \o "<b>" \o next.text \o "</b>"]

on_other(st, next) ==
    [st EXCEPT !.building = @ \o next.text]

\* One turn of `while let Some(next) = item_queue.pop_front()`
reduce_step(st) ==
    LET next == Head(st.item_queue)
        popped == [st EXCEPT !.item_queue = Tail(@)]
    IN  IF starts_with_break(next.category) THEN on_break(popped, next)
        ELSE CASE next.category = "italic" -> on_italic(popped, next)
               [] next.category = "bold" -> on_bold(popped, next)
               [] OTHER -> on_other(popped, next)

\* The locals of reduce_ast as its loop is entered
reduce_entry(items) == [item_queue |-> items, transformed |-> <<>>, building |-> ""]

RECURSIVE reduce_loop(_)

reduce_loop(st) ==
    IF st.item_queue = <<>> THEN st.transformed ELSE reduce_loop(reduce_step(st))

\* Item::reduce_ast(items)
reduce_ast(items) == reduce_loop(reduce_entry(items))

\* Mutant of from_list: a syntax error is reported as an item
from_list_ReportsError(body) ==
    IF body = <<>> THEN <<>>
    ELSE LET ast == to_mdast(body[1]) IN
         IF ast.ok
         THEN LET built == build_items(ast.node, <<>>) IN
              IF built # <<>> THEN reduce_ast(built[1]) ELSE <<>>
         ELSE <<[category |-> "error", text |-> "syntax"]>>

\* Item::from_list(body)
from_list(body) ==
    IF body = <<>> THEN <<>>
    ELSE LET ast == to_mdast(body[1]) IN
         IF ast.ok
         THEN LET built == build_items(ast.node, <<>>) IN
              IF built # <<>> THEN reduce_ast(built[1]) ELSE <<>>
         ELSE <<>>

\* ---------------------------------------------------------- release bodies
\* The release notes of v1, as a document
ReleaseNotes == Root(<<Paragraph(<<Strong(<<Text("A")>>), Text("B")>>)>>)

\* release.body, an Option<String>, as upstream may serve it: the notes of v1
\* are a document; v2 was published without notes, or with notes the parser
\* rejects
UpstreamBodies(tag_name) ==
    IF tag_name = "v1" THEN {<<Notes(ReleaseNotes)>>}
    ELSE {<<>>, <<Malformed>>}

\* The Release values a call can return, tag_name and body; none when the
\* release asked for does not exist
Published(call) ==
    IF UpstreamRelease(call) = <<>> THEN {}
    ELSE {[tag_name |-> UpstreamRelease(call)[1].tag_name, body |-> b] :
            b \in UpstreamBodies(UpstreamRelease(call)[1].tag_name)}

\* Item::from_list(release.body) for each body upstream can serve
items_of_body == [b \in UNION {UpstreamBodies(t) : t \in TagNames} |-> from_list(b)]

\* -------------------------------------------------------- request values
\* is_latest / fetch_latest: the tag parameter is absent or literally "latest"
fetch_latest(tag) == tag = <<>> \/ (tag # <<>> /\ tag[1] = "latest")

\* Mutant of Matches: a Latest request takes any record of the repository,
\* whatever its latest flag
Matches_IgnoresFlag(res, org, repo, tag) ==
    /\ res.org = org
    /\ res.repo = repo
    /\ \/ fetch_latest(tag)
       \/ (tag # <<>> /\ tag[1] = res.tag)

\* The closure given to cache.find in get_release_notes
Matches(res, org, repo, tag) ==
    /\ res.org = org
    /\ res.repo = repo
    /\ \/ fetch_latest(tag) = res.latest
       \/ (tag # <<>> /\ tag[1] = res.tag)

\* The ApiResponse both handlers assemble from a fetched release
ApiResponse(org, repo, tag, release) ==
    [org |-> org, repo |-> repo, latest |-> fetch_latest(tag),
     tag |-> release.tag_name, items |-> items_of_body[release.body]]

\* ------------------------------------------------------------- LRU cache
\* A cache entry is an ApiResponse together with two history fields that no
\* handler reads: `used`, the rank of its last use among the entries of the
\* cache (1 is the least recently used), and `via`, the handler that
\* inserted it.
Entry(rec, rank, kind) ==
    [org |-> rec.org, repo |-> rec.repo, latest |-> rec.latest,
     tag |-> rec.tag, items |-> rec.items, used |-> rank, via |-> kind]

Record(e) ==
    [org |-> e.org, repo |-> e.repo, latest |-> e.latest, tag |-> e.tag,
     items |-> e.items]

\* History only: the ranks of last use, renumbered 1..Len(c) in their order
Rerank(c) ==
    [i \in 1..Len(c) |->
        [c[i] EXCEPT !.used = Cardinality({j \in 1..Len(c) : c[j].used <= c[i].used})]]

\* LRUCache::insert: the new entry becomes the front; a full cache drops its back
LRUInsert(c, e) ==
    IF Len(c) >= Capacity
    THEN <<e>> \o SubSeq(c, 1, Len(c) - 1)
    ELSE <<e>> \o c

\* Mutant of FindIndex: the search runs from the least recently used entry
FindIndex_FromBack(c, org, repo, tag) ==
    IF \E i \in 1..Len(c) : Matches(c[i], org, repo, tag)
    THEN CHOOSE i \in 1..Len(c) :
            /\ Matches(c[i], org, repo, tag)
            /\ \A j \in (i + 1)..Len(c) : ~Matches(c[j], org, repo, tag)
    ELSE 0

\* LRUCache::find, the search: the position of the first entry, from the
\* most recently used one, that satisfies the predicate; 0 when none does
FindIndex(c, org, repo, tag) ==
    IF \E i \in 1..Len(c) : Matches(c[i], org, repo, tag)
    THEN CHOOSE i \in 1..Len(c) :
            /\ Matches(c[i], org, repo, tag)
            /\ \A j \in 1..(i - 1) : ~Matches(c[j], org, repo, tag)
    ELSE 0

\* Mutant of Touch: the search of cache.iter().find(..), which leaves the
\* order of the entries alone
Touch_NoMove(c, i) == c

\* LRUCache::find, the touch: the entry found moves to the front
Touch(c, i) ==
    <<c[i]>> \o SubSeq(c, 1, i - 1) \o SubSeq(c, i + 1, Len(c))

\* History only: entry i of c is used now
Use(c, i) == [c EXCEPT ![i].used = Len(c) + 1]

\* ----------------------------------------------------------------- state
VARIABLES
    cache,      \* the LRUCache behind the Mutex: entries, most recently used first
    holder,     \* the task holding the MutexGuard, NoProc when the Mutex is free
    waitQ,      \* the tasks suspended in state.lock().await, in arrival order
    pc,         \* where each task is: "idle", "waiting" (for the Mutex) or
                \* "fetching" (awaiting the upstream call)
    req,        \* the request each task is serving: handler, path and query
    inflight,   \* the upstream call awaited, None when there is none
    nOps,       \* history: number of requests that have arrived
    snap,       \* history: the cache as the task holding the Mutex found it
    last,       \* history: the last request answered, its answer, the upstream
                \* call it made, the release the call returned and the cache as
                \* its handler found it
    md_pc,        \* where a call of Item::from_list or Item::reduce_ast is:
                  \* "none", "from_list", "reduce_ast" or "returned"
    md_entry,     \* history: the function called, "from_list" or "reduce_ast"
    md_body,      \* the body given to from_list
    md_items,     \* the items given to reduce_ast
    item_queue,   \* reduce_ast's locals
    transformed,
    building,
    md_ret        \* the value returned

\* The variables of the server, and those of a call of the markdown reducer
server_vars == <<cache, holder, waitQ, pc, req, inflight, nOps, snap, last>>
md_vars == <<md_pc, md_entry, md_body, md_items, item_queue, transformed, building, md_ret>>

vars == <<cache, holder, waitQ, pc, req, inflight, nOps, snap, last,
          md_pc, md_entry, md_body, md_items, item_queue, transformed, building, md_ret>>

NoReq == [kind |-> "none", org |-> "", repo |-> "", tag |-> <<>>]

\* What a handler leaves in `last` when it returns
Answer(p, status, body, outcome) ==
    [req |-> req[p], status |-> status, body |-> body, call |-> inflight,
     release |-> <<>>, outcome |-> outcome, before |-> snap]

\* The server as main starts it
ServerInit ==
    /\ cache = <<>>
    /\ holder = NoProc
    /\ waitQ = <<>>
    /\ pc = [p \in Procs |-> "idle"]
    /\ req = [p \in Procs |-> NoReq]
    /\ inflight = <<>>
    /\ nOps = 0
    /\ snap = <<>>
    /\ last = [req |-> NoReq, status |-> "none", body |-> <<>>, call |-> <<>>,
               release |-> <<>>, outcome |-> "none", before |-> <<>>]

\* No call of the reducer is followed on its own
MdNone ==
    /\ md_pc = "none"
    /\ md_entry = "none"
    /\ md_body = <<>>
    /\ md_items = <<>>
    /\ item_queue = <<>>
    /\ transformed = <<>>
    /\ building = ""
    /\ md_ret = <<>>

Init == ServerInit /\ MdNone

\* ------------------------------------------------------------ the handlers
\* A request arrives and its handler reaches state.lock().await
Start(p, kind, org, repo, tag) ==
    /\ pc[p] = "idle"
    /\ nOps < MaxOps
    /\ nOps' = nOps + 1
    /\ req' = [req EXCEPT ![p] = [kind |-> kind, org |-> org, repo |-> repo, tag |-> tag]]
    /\ waitQ' = Append(waitQ, p)
    /\ pc' = [pc EXCEPT ![p] = "waiting"]
    /\ UNCHANGED <<cache, holder, inflight, snap, last>>
    /\ UNCHANGED md_vars

\* Mutant of Lock: the lock is granted whether or not it is held
Lock_Barging(p) ==
    /\ pc[p] = "waiting"
    /\ waitQ # <<>>
    /\ Head(waitQ) = p
    /\ waitQ' = Tail(waitQ)

\* state.lock().await returns: tokio's Mutex is free and grants the lock in
\* the order it was requested
Lock(p) ==
    /\ pc[p] = "waiting"
    /\ holder = NoProc
    /\ waitQ # <<>>
    /\ Head(waitQ) = p
    /\ waitQ' = Tail(waitQ)

\* Mutant of Await: the guard is dropped before the upstream call is awaited
Await_DropsGuard(p, call) ==
    /\ holder' = NoProc
    /\ snap' = cache
    /\ inflight' = <<call>>
    /\ pc' = [pc EXCEPT ![p] = "fetching"]
    /\ UNCHANGED <<cache, req, nOps, last>>
    /\ UNCHANGED md_vars

\* The handler suspends in the upstream call's .await, its MutexGuard alive
Await(p, call) ==
    /\ holder' = p
    /\ snap' = cache
    /\ inflight' = <<call>>
    /\ pc' = [pc EXCEPT ![p] = "fetching"]
    /\ UNCHANGED <<cache, req, nOps, last>>
    /\ UNCHANGED md_vars

\* The handler returns: its MutexGuard is dropped with the scope it lives in,
\* and the task ends
Return(p) ==
    /\ holder' = NoProc
    /\ snap' = <<>>
    /\ inflight' = <<>>
    /\ pc' = [pc EXCEPT ![p] = "idle"]
    /\ req' = [req EXCEPT ![p] = NoReq]
    /\ UNCHANGED nOps
    /\ UNCHANGED md_vars

\* get_release_notes, cache.find returns Some(release): the entry is touched
\* and its clone is the response
GetHit(p) ==
    /\ req[p].kind = "get"
    /\ Lock(p)
    /\ LET i == FindIndex(cache, req[p].org, req[p].repo, req[p].tag) IN
        /\ i > 0
        /\ cache' = Rerank(Touch(Use(cache, i), i))
        /\ last' = [Answer(p, "OK", <<Record(cache[i])>>, "none") EXCEPT !.before = cache]
    /\ Return(p)

\* get_release_notes, cache.find returns None: the upstream call is made and
\* awaited with the guard held
GetMiss(p) ==
    /\ req[p].kind = "get"
    /\ Lock(p)
    /\ FindIndex(cache, req[p].org, req[p].repo, req[p].tag) = 0
    /\ Await(p, UpstreamCall(req[p].org, req[p].repo, req[p].tag))

\* get_release_notes, the upstream call returns a release: the response is
\* assembled, inserted and returned
GetFetched(p) ==
    /\ pc[p] = "fetching"
    /\ req[p].kind = "get"
    /\ \E release \in Published(inflight[1]) :
        LET response == ApiResponse(req[p].org, req[p].repo, req[p].tag, release) IN
            /\ cache' = Rerank(LRUInsert(cache, Entry(response, Len(cache) + 1, "get")))
            /\ last' = [Answer(p, "OK", <<response>>, "ok") EXCEPT !.release = <<release>>]
    /\ Return(p)
    /\ UNCHANGED waitQ

\* Mutant of GetFailed: the early return leaves the Mutex locked
GetFailed_LeaksGuard(p, outcome) ==
    /\ pc[p] = "fetching"
    /\ req[p].kind = "get"
    /\ outcome \in Failures(inflight[1])
    /\ last' = Answer(p, "NOT_FOUND", <<>>, outcome)
    /\ inflight' = <<>>
    /\ pc' = [pc EXCEPT ![p] = "idle"]
    /\ req' = [req EXCEPT ![p] = NoReq]
    /\ UNCHANGED <<cache, waitQ, holder, snap, nOps>>
    /\ UNCHANGED md_vars

\* get_release_notes, the upstream call fails: map_err(..NOT_FOUND)? returns
GetFailed(p, outcome) ==
    /\ pc[p] = "fetching"
    /\ req[p].kind = "get"
    /\ outcome \in Failures(inflight[1])
    /\ last' = Answer(p, "NOT_FOUND", <<>>, outcome)
    /\ Return(p)
    /\ UNCHANGED <<cache, waitQ>>

\* force_refresh: no lookup, the upstream call is made with the guard held
ForceCall(p) ==
    /\ req[p].kind = "force"
    /\ Lock(p)
    /\ Await(p, UpstreamCall(req[p].org, req[p].repo, req[p].tag))

\* Mutant of ForceFetched: the new record replaces the records it matches
ForceFetched_Replaces(p) ==
    /\ pc[p] = "fetching"
    /\ req[p].kind = "force"
    /\ \E release \in Published(inflight[1]) :
        /\ LET kept == Rerank(SelectSeq(cache,
                    LAMBDA e : ~Matches(e, req[p].org, req[p].repo, req[p].tag)))
           IN cache' = Rerank(LRUInsert(kept,
                  Entry(ApiResponse(req[p].org, req[p].repo, req[p].tag, release),
                        Len(kept) + 1, "force")))
        /\ last' = [Answer(p, "OK", <<>>, "ok") EXCEPT !.release = <<release>>]
    /\ Return(p)
    /\ UNCHANGED waitQ

\* force_refresh, Ok(release): insert and StatusCode::OK
ForceFetched(p) ==
    /\ pc[p] = "fetching"
    /\ req[p].kind = "force"
    /\ \E release \in Published(inflight[1]) :
        /\ cache' = Rerank(LRUInsert(cache,
               Entry(ApiResponse(req[p].org, req[p].repo, req[p].tag, release),
                     Len(cache) + 1, "force")))
        /\ last' = [Answer(p, "OK", <<>>, "ok") EXCEPT !.release = <<release>>]
    /\ Return(p)
    /\ UNCHANGED waitQ

\* The status force_refresh returns for a failed upstream call: both arms
\* map the error to NOT_FOUND, and `_ => INTERNAL_SERVER_ERROR` discards it
ForceFailureStatus(outcome) == "INTERNAL_SERVER_ERROR"

\* Mutant of ForceFailed: a failed refresh drops the records it was to replace
ForceFailed_Evicts(p, outcome) ==
    /\ pc[p] = "fetching"
    /\ req[p].kind = "force"
    /\ outcome \in Failures(inflight[1])
    /\ cache' = Rerank(SelectSeq(cache,
                    LAMBDA e : ~Matches(e, req[p].org, req[p].repo, req[p].tag)))
    /\ last' = Answer(p, ForceFailureStatus(outcome), <<>>, outcome)
    /\ Return(p)
    /\ UNCHANGED waitQ

\* force_refresh, Err(_)
ForceFailed(p, outcome) ==
    /\ pc[p] = "fetching"
    /\ req[p].kind = "force"
    /\ outcome \in Failures(inflight[1])
    /\ last' = Answer(p, ForceFailureStatus(outcome), <<>>, outcome)
    /\ Return(p)
    /\ UNCHANGED <<cache, waitQ>>

Next ==
    \E p \in Procs :
        \/ \E kind \in Kinds, org \in Orgs, repo \in Repos, tag \in TagParams :
              Start(p, kind, org, repo, tag)
        \/ GetHit(p)
        \/ GetMiss(p)
        \/ GetFetched(p)
        \/ \E o \in {"error", "not_found"} : GetFailed(p, o)
        \/ ForceCall(p)
        \/ ForceFetched(p)
        \/ \E o \in {"error", "not_found"} : ForceFailed(p, o)

Spec == Init /\ [][Next]_vars

\* A handler whose lock().await can return goes on
Acquire(p) == GetHit(p) \/ GetMiss(p) \/ ForceCall(p)

\* The upstream call a handler awaits resolves, with a release or an error
Resolve(p) ==
    \/ GetFetched(p)
    \/ ForceFetched(p)
    \/ \E o \in {"error", "not_found"} : GetFailed(p, o) \/ ForceFailed(p, o)

\* Requests may stop arriving.  The tokio runtime polls every task that is
\* woken, so a handler whose await can return goes on, and every upstream
\* call resolves.
FairSpec == Spec /\ \A p \in Procs : WF_vars(Acquire(p) \/ Resolve(p))

\* ------------------------------------------ a call of the markdown reducer
\* Children of one paragraph, list items of one list
MaxRuns == 2
\* Items in a sequence given to reduce_ast directly
MaxItems == 3

\* The sequences over S of at least lo and at most hi elements
SeqsOf(S, lo, hi) == UNION {[1..k -> S] : k \in lo..hi}

\* The trees the parser makes of the documents drawn: inline content up to
\* two marks deep, paragraphs, lists whose items hold one paragraph each, and
\* a block build_items has no arm for
TextValues == {"A", "B"}
Leaves == {Text(v) : v \in TextValues} \cup {InlineCode("c"), Image}

Marked(S) ==
    {Strong(<<x>>) : x \in S} \cup {Emphasis(<<x>>) : x \in S}
        \cup {Link(u, <<x>>) : u \in Urls, x \in S}

Phrasing == Leaves \cup Marked({Text("A")}) \cup Marked(Marked({Text("B")}))
Paragraphs == {Paragraph(s) : s \in SeqsOf(Phrasing, 1, MaxRuns)}
ListItems == {ListItem(<<Paragraph(<<x>>)>>) : x \in Leaves}
Lists == {List(s) : s \in SeqsOf(ListItems, 1, MaxRuns)}
Blocks == Paragraphs \cup Lists \cup {ThematicBreak}
ShortBlocks ==
    {Paragraph(<<x>>) : x \in Leaves} \cup {List(<<i>>) : i \in ListItems}
        \cup {ThematicBreak}

\* "**Bold** and *italic* text.\n"
Md_BoldItalic ==
    Root(<<Paragraph(<<Strong(<<Text("Bold")>>), Text(" and "),
                       Emphasis(<<Text("italic")>>), Text(" text.")>>)>>)

\* "![alt](url)"
Md_ImageOnly == Root(<<Paragraph(<<Image>>)>>)

\* "- A\n- B\n": a list item holds its text in a paragraph, in a tight list
\* as in a loose one
Md_ListAB ==
    Root(<<List(<<ListItem(<<Paragraph(<<Text("A")>>)>>),
                  ListItem(<<Paragraph(<<Text("B")>>)>>)>>)>>)

Docs ==
    {Root(<<>>), Md_BoldItalic, Md_ImageOnly, Md_ListAB, ReleaseNotes}
        \cup {Root(<<b>>) : b \in Blocks}
        \cup {Root(<<b, c>>) : b \in ShortBlocks, c \in ShortBlocks}

\* release.body: None, Some(text the parser rejects), Some(document)
Bodies == {<<>>, <<Malformed>>} \cup {<<Notes(d)>> : d \in Docs}

\* The items and the item sequences given to reduce_ast directly
FlatItems ==
    {[category |-> c, text |-> t] :
        c \in Categories \ {"break-p", "break-l"}, t \in TextValues}
        \cup {paragraph_break, list_break}
FlatSeqs == SeqsOf(FlatItems, 0, MaxItems)

\* from_list is called on a body, or reduce_ast on a sequence of items
MdInit ==
    /\ ServerInit
    /\ md_ret = <<>>
    /\ \/ /\ md_pc = "from_list"
          /\ md_entry = "from_list"
          /\ md_body \in Bodies
          /\ md_items = <<>>
          /\ item_queue = <<>>
          /\ transformed = <<>>
          /\ building = ""
       \/ /\ md_pc = "reduce_ast"
          /\ md_entry = "reduce_ast"
          /\ md_body = <<>>
          /\ md_items \in FlatSeqs
          /\ item_queue = reduce_entry(md_items).item_queue
          /\ transformed = reduce_entry(md_items).transformed
          /\ building = reduce_entry(md_items).building

\* from_list, `None => vec![]`
FromListNone ==
    /\ md_pc = "from_list"
    /\ md_body = <<>>
    /\ md_ret' = <<>>
    /\ md_pc' = "returned"
    /\ UNCHANGED <<md_entry, md_body, md_items, item_queue, transformed, building>>
    /\ UNCHANGED server_vars

\* from_list, `Err(e) => vec![]`
FromListErr ==
    /\ md_pc = "from_list"
    /\ md_body # <<>>
    /\ ~to_mdast(md_body[1]).ok
    /\ md_ret' = <<>>
    /\ md_pc' = "returned"
    /\ UNCHANGED <<md_entry, md_body, md_items, item_queue, transformed, building>>
    /\ UNCHANGED server_vars

\* from_list, `Ok(node)`: build_items, and reduce_ast on its items when it
\* returns some
FromListOk ==
    /\ md_pc = "from_list"
    /\ md_body # <<>>
    /\ to_mdast(md_body[1]).ok
    /\ LET built == build_items(to_mdast(md_body[1]).node, <<>>) IN
        IF built # <<>>
        THEN /\ md_items' = built[1]
             /\ item_queue' = reduce_entry(built[1]).item_queue
             /\ transformed' = reduce_entry(built[1]).transformed
             /\ building' = reduce_entry(built[1]).building
             /\ md_pc' = "reduce_ast"
             /\ UNCHANGED md_ret
        ELSE /\ md_ret' = <<>>
             /\ md_pc' = "returned"
             /\ UNCHANGED <<md_items, item_queue, transformed, building>>
    /\ UNCHANGED <<md_entry, md_body>>
    /\ UNCHANGED server_vars

\* reduce_ast, one turn of its loop
ReduceTurn ==
    /\ md_pc = "reduce_ast"
    /\ item_queue # <<>>
    /\ LET st == reduce_step([item_queue |-> item_queue, transformed |-> transformed,
                              building |-> building])
       IN /\ item_queue' = st.item_queue
          /\ transformed' = st.transformed
          /\ building' = st.building
    /\ UNCHANGED <<md_pc, md_entry, md_body, md_items, md_ret>>
    /\ UNCHANGED server_vars

\* The turn for an item whose category starts with "break"
ReduceBreak ==
    /\ item_queue # <<>>
    /\ starts_with_break(Head(item_queue).category)
    /\ ReduceTurn

\* The turn for an "italic" item
ReduceItalic ==
    /\ item_queue # <<>>
    /\ ~starts_with_break(Head(item_queue).category)
    /\ Head(item_queue).category = "italic"
    /\ ReduceTurn

\* The turn for a "bold" item
ReduceBold ==
    /\ item_queue # <<>>
    /\ ~starts_with_break(Head(item_queue).category)
    /\ Head(item_queue).category = "bold"
    /\ ReduceTurn

\* The turn for any other item
ReduceOther ==
    /\ item_queue # <<>>
    /\ ~starts_with_break(Head(item_queue).category)
    /\ Head(item_queue).category \notin {"italic", "bold"}
    /\ ReduceTurn

\* reduce_ast returns `transformed`, and from_list returns it in turn
ReduceReturn ==
    /\ md_pc = "reduce_ast"
    /\ item_queue = <<>>
    /\ md_ret' = transformed
    /\ md_pc' = "returned"
    /\ UNCHANGED <<md_entry, md_body, md_items, item_queue, transformed, building>>
    /\ UNCHANGED server_vars

MdNext ==
    \/ FromListNone
    \/ FromListErr
    \/ FromListOk
    \/ ReduceBreak
    \/ ReduceItalic
    \/ ReduceBold
    \/ ReduceOther
    \/ ReduceReturn

MdSpec == MdInit /\ [][MdNext]_vars

\* ------------------------------------------------- vocabulary of the claims
\* The selector a tag parameter stands for: Latest when the parameter is
\* absent or the literal "latest", Specific(t) otherwise
IsLatestSelector(tag) == tag = <<>> \/ tag = <<"latest">>

\* The match the specification describes: same org and repo, and the record
\* is flagged latest for Latest, or carries the tag t for Specific(t)
SelectorMatches(rec, org, repo, tag) ==
    /\ rec.org = org
    /\ rec.repo = repo
    /\ \/ IsLatestSelector(tag) /\ rec.latest
       \/ ~IsLatestSelector(tag) /\ rec.tag = tag[1]

\* The entry was inserted by a get request with the selector of `tag`
InsertedByGetWith(e, org, repo, tag) ==
    /\ e.via = "get"
    /\ e.org = org
    /\ e.repo = repo
    /\ IF IsLatestSelector(tag) THEN e.latest ELSE ~e.latest /\ e.tag = tag[1]

\* The last request answered was a get answered from the cache / by a fetch
LastWasHit == last.req.kind = "get" /\ last.status = "OK" /\ last.call = <<>>
LastFetched == last.call # <<>> /\ last.outcome = "ok"
LastFailed == last.call # <<>> /\ last.outcome \in {"error", "not_found"}

\* ------------------------------------------------------------------ C1
\* C1: for every cached record and every get request, cache.find's predicate
\* accepts the record if and only if org and repo are equal and (the selector
\* is Latest and the record is flagged latest, or the selector is Specific(t)
\* and the record's tag is t).
C1_HitIffSelectorMatches ==
    \A p \in Procs : req[p].kind = "get" =>
        \A i \in 1..Len(cache) :
            Matches(cache[i], req[p].org, req[p].repo, req[p].tag)
                <=> SelectorMatches(cache[i], req[p].org, req[p].repo, req[p].tag)

\* ------------------------------------------------------------------ C2
\* C2: a get request without a tag parameter is never answered with a cached
\* record whose latest flag is false; when the cache holds no latest-flagged
\* record of its org and repo, it takes the miss path and calls get_latest.
C2_LatestNeverServedByUnflagged ==
    (last.req.kind = "get" /\ last.req.tag = <<>>) =>
        /\ LastWasHit => last.body[1].latest
        /\ (\A i \in 1..Len(last.before) :
                (last.before[i].org = last.req.org /\ last.before[i].repo = last.req.repo)
                    => ~last.before[i].latest)
            => last.call = <<get_latest(last.req.org, last.req.repo)>>

\* A tag-less get fetched although the cache held an unflagged record of its
\* org and repo carrying the very tag that is the latest upstream
C2_Witness ==
    /\ last.req.kind = "get"
    /\ last.req.tag = <<>>
    /\ LastFetched
    /\ \E i \in 1..Len(last.before) :
        /\ last.before[i].org = last.req.org
        /\ last.before[i].repo = last.req.repo
        /\ ~last.before[i].latest
        /\ <<last.before[i].tag>> = UpstreamLatest(last.req.org, last.req.repo)

\* ------------------------------------------------------------------ C3
\* C3: once a get request has inserted a record, a later get request with the
\* same org, repo and selector made while that record is in the cache is
\* answered from the cache, with a record that matches the selector: flagged
\* latest for Latest, carrying the tag t for Specific(t).
C3_LookupAfterInsert ==
    (/\ last.req.kind = "get"
     /\ \E i \in 1..Len(last.before) :
            InsertedByGetWith(last.before[i], last.req.org, last.req.repo, last.req.tag))
    => /\ LastWasHit
       /\ IF IsLatestSelector(last.req.tag)
          THEN last.body[1].latest
          ELSE last.body[1].tag = last.req.tag[1]

\* ------------------------------------------------------------------ C4
\* An entry without its rank of use
Strip(e) == [org |-> e.org, repo |-> e.repo, latest |-> e.latest, tag |-> e.tag,
             items |-> e.items, via |-> e.via]

\* The entries of a cache from the least to the most recently used, by their
\* ranks of use (not by their places in the cache)
ByUse(c) ==
    [k \in 1..Len(c) |-> Strip(c[CHOOSE i \in 1..Len(c) : c[i].used = k])]

\* s without its element at k
Without(s, k) == SubSeq(s, 1, k - 1) \o SubSeq(s, k + 1, Len(s))

\* C4: the cache never holds more than Capacity records; an insert into a
\* full cache removes exactly the least recently used record, an insert into
\* a cache that is not full removes none, and a hit removes none and makes
\* the record it returns the most recently used one.
C4_CapacityAndLRU ==
    LET B == ByUse(last.before)
        A == ByUse(cache)
    IN  /\ Len(cache) <= Capacity
        /\ {cache[i].used : i \in 1..Len(cache)} = 1..Len(cache)
        /\ LastFetched =>
            /\ A # <<>>
            /\ A[Len(A)].org = last.req.org
            /\ A[Len(A)].repo = last.req.repo
            /\ A[Len(A)].via = last.req.kind
            /\ SubSeq(A, 1, Len(A) - 1) = IF Len(B) >= Capacity THEN Tail(B) ELSE B
        /\ LastWasHit =>
            \E k \in 1..Len(B) :
                /\ Record(B[k]) = last.body[1]
                /\ A = Append(Without(B, k), B[k])

\* A record was inserted into a full cache
C4_Witness ==
    /\ LastFetched
    /\ Len(last.before) = Capacity
    /\ Len(cache) = Capacity

\* ------------------------------------------------------------------ C5
\* C5: force_refresh answers OK when the upstream call succeeds, NOT_FOUND
\* when the tag asked for does not exist upstream, and INTERNAL_SERVER_ERROR
\* when the call fails in another way.
C5_ForceRefreshStatus ==
    last.req.kind = "force" =>
        /\ last.outcome = "ok" => last.status = "OK"
        /\ (last.outcome = "not_found" /\ last.call[1].op = "get_by_tag")
              => last.status = "NOT_FOUND"
        /\ last.outcome = "error" => last.status = "INTERNAL_SERVER_ERROR"

\* ------------------------------------------------------------------ C6
\* C6: when the upstream call of a get or a force-refresh request fails, the
\* cache is as the request found it, records and order of use alike; so is
\* it for as long as the call is awaited.
C6_FailedFetchLeavesCache ==
    /\ LastFailed => cache = last.before
    /\ \A p \in Procs : pc[p] = "fetching" => cache = snap

\* A force-refresh failed while the cache held a record for its org, repo and
\* selector, and the record is still there
C6_Witness ==
    /\ last.req.kind = "force"
    /\ LastFailed
    /\ \E i \in 1..Len(cache) :
          SelectorMatches(cache[i], last.req.org, last.req.repo, last.req.tag)

\* ------------------------------------------------------------------ C7
\* C7: a request whose tag parameter is the literal "latest" makes the
\* upstream call a request without a tag parameter makes, get_latest, in both
\* handlers.
C7_LatestLiteralCallsGetLatest ==
    \A p \in Procs :
        (pc[p] = "fetching" /\ req[p].tag = <<"latest">>)
            => inflight = <<UpstreamCall(req[p].org, req[p].repo, <<>>)>>

\* ------------------------------------------------------------------ C8
\* At most one task is between acquiring and releasing the lock, it is the
\* holder, and the upstream call in flight is its own
C8_OneHolder ==
    /\ Cardinality({p \in Procs : pc[p] = "fetching"}) <= 1
    /\ \A p \in Procs : pc[p] = "fetching" <=> holder = p
    /\ inflight # <<>> <=> holder # NoProc

\* While a task awaits its upstream call the other tasks may arrive and
\* wait, and do nothing else; the cache changes only as that task returns
C8_OthersWait ==
    \A p \in Procs : pc[p] = "fetching" =>
        /\ \A q \in Procs \ {p} :
              \/ pc'[q] = pc[q]
              \/ pc[q] = "idle" /\ pc'[q] = "waiting"
        /\ pc'[p] = "fetching" => (cache' = cache /\ inflight' = inflight)

\* C8: at most one handler at a time is between acquiring and releasing the
\* cache lock, and the lock is held across the upstream fetch: until the
\* fetch resolves no other handler looks up, inserts or fetches, whatever
\* org and repo it asks for.
C8_LockHeldAcrossFetch == []C8_OneHolder /\ [][C8_OthersWait]_vars

\* A task awaits the upstream call for one org while a request for another
\* org waits for the lock
C8_Witness ==
    \E p, q \in Procs :
        /\ pc[p] = "fetching"
        /\ pc[q] = "waiting"
        /\ req[q].org # req[p].org

\* ------------------------------------------------------------------ C9
\* C9: when every upstream call resolves and the lock is granted in the
\* order it was asked for, every handler that waits for the lock or holds it
\* returns, and a handler that has returned does not hold the lock: every
\* exit path, the early return on an upstream error included, releases it.
C9_WaitersReturn ==
    /\ [](\A p \in Procs : pc[p] = "idle" => holder # p)
    /\ \A p \in Procs : (pc[p] # "idle") ~> (pc[p] = "idle")

\* A task waits for the lock another task holds across its upstream call,
\* after a get request returned early on an upstream error
C9_Witness ==
    /\ last.req.kind = "get"
    /\ LastFailed
    /\ \E p, q \in Procs : pc[p] = "waiting" /\ pc[q] = "fetching" /\ holder = q

\* ------------------------------------------------------------------ C10
\* C10: a force-refresh always makes its upstream call, whatever the cache
\* holds; when the call succeeds and the cache is below capacity the cache
\* grows by exactly the new record, and every record it held, those matching
\* the request included, is still there.
C10_ForceRefreshAddsRecord ==
    last.req.kind = "force" =>
        /\ last.call = <<UpstreamCall(last.req.org, last.req.repo, last.req.tag)>>
        /\ (last.status = "OK" /\ Len(last.before) < Capacity) =>
            /\ Len(cache) = Len(last.before) + 1
            /\ \A k \in 1..Len(last.before) : ByUse(cache)[k] = ByUse(last.before)[k]
            /\ Cardinality({i \in 1..Len(cache) :
                    Matches(cache[i], last.req.org, last.req.repo, last.req.tag)})
                = 1 + Cardinality({i \in 1..Len(last.before) :
                    Matches(last.before[i], last.req.org, last.req.repo, last.req.tag)})

\* A force-refresh succeeded on a cache below capacity that already held a
\* record for its org, repo and selector
C10_Witness ==
    /\ last.req.kind = "force"
    /\ last.status = "OK"
    /\ Len(last.before) < Capacity
    /\ \E i \in 1..Len(last.before) :
          SelectorMatches(last.before[i], last.req.org, last.req.repo, last.req.tag)

\* ------------------------------------- vocabulary of the reducer's claims
\* The break markers the specification names: paragraph-break and list-break
IsBreakMarker(item) == item.category \in {"break-p", "break-l"}

\* from_list was called on a document, and build_items has walked its tree
WalkedTree ==
    /\ md_entry = "from_list"
    /\ md_pc \in {"reduce_ast", "returned"}
    /\ md_body # <<>>
    /\ ~md_body[1].malformed

\* from_list has returned from a call on a document
ReturnedForTree == WalkedTree /\ md_pc = "returned"

\* A text run, as the specification writes it in the output: bold in <b>,
\* italic in <i>, anything else as it is
Wrapped(category, text) ==
    CASE category = "bold" -> "<b>" \o text \o "</b>"
      [] category = "italic" -> "<i>" \o text \o "</i>"
      [] OTHER -> text

\* ------------------------------------------------------------------ C11
\* C11: whatever the body, no item of the sequence Item::from_list returns is
\* a break marker (category "break-p" or "break-l"): the markers the walk
\* produces are all consumed by the reduction.
C11_NoBreakMarkerReturned ==
    (md_pc = "returned" /\ md_entry = "from_list") =>
        \A i \in 1..Len(md_ret) : ~IsBreakMarker(md_ret[i])

\* from_list returned items for a document whose walk produced a
\* paragraph-break and a list-break
C11_Witness ==
    /\ md_pc = "returned"
    /\ md_entry = "from_list"
    /\ \E i \in 1..Len(md_items) : md_items[i].category = "break-p"
    /\ \E i \in 1..Len(md_items) : md_items[i].category = "break-l"
    /\ Len(md_ret) >= 2

\* ------------------------------------------------------------------ C12
\* A plain, bold or italic text run of a paragraph
IsRun(n) ==
    \/ n.type = "Text"
    \/ /\ n.type \in {"Strong", "Emphasis"}
       /\ Len(n.children) = 1
       /\ n.children[1].type = "Text"

\* The document is one paragraph of such runs
IsParagraphOfRuns(doc) ==
    /\ Len(doc.children) = 1
    /\ doc.children[1].type = "Paragraph"
    /\ doc.children[1].children # <<>>
    /\ \A i \in 1..Len(doc.children[1].children) : IsRun(doc.children[1].children[i])

RunText(n) ==
    CASE n.type = "Strong" -> Wrapped("bold", n.children[1].value)
      [] n.type = "Emphasis" -> Wrapped("italic", n.children[1].value)
      [] OTHER -> Wrapped("text", n.value)

RECURSIVE RunsText(_)

RunsText(runs) ==
    IF runs = <<>> THEN "" ELSE RunText(Head(runs)) \o RunsText(Tail(runs))

\* C12: for a single paragraph of plain, bold and italic text runs from_list
\* returns exactly one item, of category "text", whose text is the runs in
\* document order, a bold run as <b>..</b>, an italic run as <i>..</i>, a
\* plain run unchanged ("**Bold** and *italic* text." gives
\* "<b>Bold</b> and <i>italic</i> text."); reduce_ast on one plain-text item
\* followed by one break returns that one item.
C12_ParagraphReducesToOneItem ==
    md_pc = "returned" =>
        /\ (ReturnedForTree /\ IsParagraphOfRuns(md_body[1].tree)) =>
              md_ret = <<[category |-> "text",
                          text |-> RunsText(md_body[1].tree.children[1].children)]>>
        /\ md_body = <<Notes(Md_BoldItalic)>> =>
              md_ret = <<[category |-> "text",
                          text |-> "<b>Bold</b> and <i>italic</i> text."]>>
        /\ (/\ md_entry = "reduce_ast"
            /\ Len(md_items) = 2
            /\ md_items[1].category = "text"
            /\ IsBreakMarker(md_items[2])) => md_ret = <<md_items[1]>>

\* from_list returned for "**Bold** and *italic* text."
C12_Witness ==
    /\ md_pc = "returned"
    /\ md_body = <<Notes(Md_BoldItalic)>>
    /\ Len(md_items) = 5

\* ------------------------------------------------------------------ C13
\* C13: a paragraph whose only child is an image contributes no item to the
\* walk, not even a paragraph-break, so that from_list returns the empty
\* sequence for a body that is just such a paragraph.
C13_ImageOnlyParagraphDropped ==
    (ReturnedForTree /\ md_body = <<Notes(Md_ImageOnly)>>) =>
        /\ md_items = <<>>
        /\ md_ret = <<>>

\* ------------------------------------------------------------------ C14
\* The document is one list
IsOneList(doc) == Len(doc.children) = 1 /\ doc.children[1].type = "List"

\* The one child of the paragraph a list item holds
Content(listItem) == listItem.children[1].children[1]

\* C14 as the specification states it: the list "- A\n- B\n" reduces to the
\* single item {category: "text", text: "AB"}.
C14_ListMergesIntoOneItem ==
    (ReturnedForTree /\ md_body = <<Notes(Md_ListAB)>>) =>
        md_ret = <<[category |-> "text", text |-> "AB"]>>

\* C14, amended: the parser puts the text of a list item in a paragraph, so a
\* list reduces to one text item per list item, holding the text or code of
\* its paragraph, in order, followed by one item with the empty text emitted
\* by the list-level break ("- A\n- B\n" gives "A", "B", "").
C14_ListReducesPerItem ==
    (/\ ReturnedForTree
     /\ IsOneList(md_body[1].tree)
     /\ \A i \in 1..Len(md_body[1].tree.children[1].children) :
            Content(md_body[1].tree.children[1].children[i]).type \in {"Text", "InlineCode"})
    => LET entries == md_body[1].tree.children[1].children IN
       md_ret = [i \in 1..(Len(entries) + 1) |->
                    [category |-> "text",
                     text |-> IF i <= Len(entries) THEN Content(entries[i]).value ELSE ""]]

\* from_list returned "A", "B", "" for "- A\n- B\n"
C14_Witness ==
    /\ md_pc = "returned"
    /\ md_body = <<Notes(Md_ListAB)>>
    /\ Len(md_ret) = 3

\* ------------------------------------------------------------------ C15
\* C15: when the release a get or a force-refresh request fetched has no
\* body, or a body the parser rejects, the request succeeds all the same: the
\* record it assembles is cached, its items list is empty, and a get returns
\* that record.
C15_BodyFailureYieldsNoItems ==
    (/\ LastFetched
     /\ last.release # <<>>
     /\ last.release[1].body \in {<<>>, <<Malformed>>})
    => /\ last.status = "OK"
       /\ cache # <<>>
       /\ cache[1].org = last.req.org
       /\ cache[1].repo = last.req.repo
       /\ cache[1].tag = last.release[1].tag_name
       /\ cache[1].via = last.req.kind
       /\ cache[1].items = <<>>
       /\ last.req.kind = "get" => last.body = <<Record(cache[1])>>

\* A get request fetched a release whose body the parser rejects
C15_Witness ==
    /\ last.req.kind = "get"
    /\ LastFetched
    /\ last.release # <<>>
    /\ last.release[1].body = <<Malformed>>
    /\ last.body # <<>>

\* ------------------------------------------------------------------ C16
\* C16: in reduce_ast an item whose category is a link target, whatever the
\* URL, has its text appended unchanged to the buffer and flushes nothing;
\* only a paragraph-break or a list-break item flushes the buffer into the
\* output.
C16_LinkTargetsOnlyAppend ==
    [][(md_pc = "reduce_ast" /\ item_queue # <<>>) =>
          /\ Head(item_queue).category \in Urls =>
                /\ transformed' = transformed
                /\ building' = building \o Head(item_queue).text
          /\ transformed' # transformed => IsBreakMarker(Head(item_queue))]_vars

\* ------------------------------------------------------------------ C17
\* The place of the j-th break marker in a sequence of items; 0 for j = 0
BreakAt(items, j) ==
    IF j = 0 THEN 0
    ELSE CHOOSE i \in 1..Len(items) :
            /\ IsBreakMarker(items[i])
            /\ Cardinality({h \in 1..i : IsBreakMarker(items[h])}) = j

RECURSIVE Gathered(_)

\* The text a run of items accumulates in the buffer
Gathered(items) ==
    IF items = <<>> THEN ""
    ELSE Wrapped(Head(items).category, Head(items).text) \o Gathered(Tail(items))

\* C17: for every flat item sequence reduce_ast returns exactly one item per
\* break marker of the sequence, in order, each of category "text" and
\* holding the text accumulated since the break before it, and nothing for
\* the items after the last break: a sequence without a break marker reduces
\* to the empty sequence.
C17_OneItemPerBreak ==
    (md_pc = "returned" /\ md_entry = "reduce_ast") =>
        /\ Len(md_ret) = Cardinality({i \in 1..Len(md_items) : IsBreakMarker(md_items[i])})
        /\ \A j \in 1..Len(md_ret) :
            /\ md_ret[j].category = "text"
            /\ md_ret[j].text = Gathered(SubSeq(md_items, BreakAt(md_items, j - 1) + 1,
                                                BreakAt(md_items, j) - 1))

\* ------------------------------------------------------------------ C18
\* The texts of the Text nodes of the documents drawn
NodeTexts == TextValues \cup {"Bold", " and ", "italic", " text."}

\* The category the specification gives a text node, from its parent
CategoryUnder(parent) ==
    CASE parent.type = "Strong" -> "bold"
      [] parent.type = "Emphasis" -> "italic"
      [] parent.type = "Link" -> parent.url
      [] OTHER -> "text"

RECURSIVE TextLeaves(_, _), TextLeavesOf(_, _)

\* The Text nodes below a node in document order, each with the category its
\* own parent gives it
TextLeaves(node, parent) ==
    IF node.type = "Text"
    THEN <<[category |-> CategoryUnder(parent), text |-> node.value]>>
    ELSE TextLeavesOf(node.children, node)

TextLeavesOf(children, parent) ==
    IF children = <<>> THEN <<>>
    ELSE TextLeaves(Head(children), parent) \o TextLeavesOf(Tail(children), parent)

\* C18: the walk gives a text node the category its immediate parent
\* decides, bold under strong, italic under emphasis, the URL under a link,
\* plain text otherwise, whatever the outer ancestors are; and the items come
\* in document order.
C18_CategoryByImmediateParent ==
    WalkedTree =>
        SelectSeq(md_items, LAMBDA item : item.text \in NodeTexts)
            = TextLeaves(md_body[1].tree, md_body[1].tree)

\* The walk of a paragraph holding a text in emphasis in strong, then a text
\* in a link in strong
C18_Witness ==
    /\ WalkedTree
    /\ md_body = <<Notes(Root(<<Paragraph(<<Strong(<<Emphasis(<<Text("B")>>)>>),
                                           Strong(<<Link("https://e.x/", <<Text("B")>>)>>)>>)>>))>>
    /\ md_items = <<[category |-> "italic", text |-> "B"],
                    [category |-> "https://e.x/", text |-> "B"],
                    paragraph_break>>

\* ------------------------------------------------------------------ C19
\* The entry was inserted by a force-refresh with the selector of `tag`
RefreshedFor(e, org, repo, tag) ==
    /\ e.via = "force"
    /\ e.org = org
    /\ e.repo = repo
    /\ IF IsLatestSelector(tag) THEN e.latest ELSE ~e.latest /\ e.tag = tag[1]

\* C19: a get request that finds, as the most recently used record of the
\* cache, a record a force-refresh with its org, repo and selector inserted,
\* is answered from the cache with that record, and not with an older record
\* for the selector; the order of use of the records is as it was.
C19_GetAfterRefresh ==
    (/\ last.req.kind = "get"
     /\ last.before # <<>>
     /\ last.before[1].used = Len(last.before)
     /\ RefreshedFor(last.before[1], last.req.org, last.req.repo, last.req.tag))
    => /\ LastWasHit
       /\ last.body = <<Record(last.before[1])>>
       /\ ByUse(cache) = ByUse(last.before)

\* A get request was answered after a force-refresh with its selector, while
\* the cache also held an older record for that selector
C19_Witness ==
    /\ last.req.kind = "get"
    /\ Len(last.before) >= 2
    /\ last.before[1].used = Len(last.before)
    /\ RefreshedFor(last.before[1], last.req.org, last.req.repo, last.req.tag)
    /\ \E i \in 2..Len(last.before) :
          SelectorMatches(last.before[i], last.req.org, last.req.repo, last.req.tag)
    /\ LastWasHit

\* ------------------------------------------------------------------ C20
\* Two requests with the same org, repo and selector
SameSelector(r, s) ==
    /\ r.org = s.org
    /\ r.repo = s.repo
    /\ IF IsLatestSelector(r.tag) THEN IsLatestSelector(s.tag) ELSE r.tag = s.tag

\* No get request awaits an upstream call while the cache holds a record for
\* its selector
C20_NoFetchWhileCached ==
    \A q \in Procs :
        (pc[q] = "fetching" /\ req[q].kind = "get") =>
            \A i \in 1..Len(cache) :
                ~SelectorMatches(cache[i], req[q].org, req[q].repo, req[q].tag)

\* A get request that acquires the lock right after a get request with its
\* selector has fetched and inserted a record is answered from the cache with
\* that record, and the cache holds exactly one record for the selector
C20_WaiterHits ==
    \A q \in Procs :
        (/\ pc[q] = "waiting"
         /\ pc'[q] # "waiting"
         /\ req[q].kind = "get"
         /\ last.req.kind = "get"
         /\ LastFetched
         /\ SameSelector(last.req, req[q]))
        => /\ pc'[q] = "idle"
           /\ last'.req = req[q]
           /\ last'.status = "OK"
           /\ last'.call = <<>>
           /\ last'.body = last.body
           /\ Cardinality({i \in 1..Len(cache') :
                  SelectorMatches(cache'[i], req[q].org, req[q].repo, req[q].tag)}) = 1

\* C20: of the get requests for one org, repo and selector that run together
\* on a cache without a record for it, exactly one makes the upstream call
\* and, when the call succeeds, inserts a record; the others acquire the lock
\* after the insert, hit, and return that record, and the cache holds exactly
\* one record for the selector.
C20_ConcurrentGetsFetchOnce == []C20_NoFetchWhileCached /\ [][C20_WaiterHits]_vars

\* A get request waits for the lock while a get request with its selector
\* awaits an upstream call that can succeed
C20_Witness ==
    \E p, q \in Procs :
        /\ pc[p] = "fetching"
        /\ pc[q] = "waiting"
        /\ req[p].kind = "get"
        /\ req[q].kind = "get"
        /\ SameSelector(req[p], req[q])
        /\ Published(inflight[1]) # {}

====
